---- MODULE Spec2Model ----
(***************************************************************************)
(* Expense tracker backend: sanitize -> validate -> store pipeline of      *)
(* controllers/expenseController.js, utils/validators.js and               *)
(* models/database.js, with the request handlers running concurrently and  *)
(* every SQL statement executing atomically.                               *)
(*                                                                         *)
(* JavaScript values are tagged records ([t |-> "number", v |-> ...]).     *)
(* Numbers are fixed-point with resolution 1/Unit (half a cent).           *)
(* A string is [lead, core, trail]: lead/trail count its leading and       *)
(* trailing whitespace characters and core describes the trimmed text.     *)
(* Time is counted in ticks, TicksPerDay ticks to a UTC calendar day; the  *)
(* text "YYYY-MM-DD" of day d denotes the instant d * TicksPerDay.         *)
(***************************************************************************)
EXTENDS Integers, Sequences, FiniteSets, TLC

\* ---------------------------------------------------------------- bounds
MaxId == 2
TicksPerDay == 2
MaxNow == TicksPerDay
Unit == 2 * 100
Cent == Unit \div 100

\* ------------------------------------------------------------ JS values
Undefined == [t |-> "undefined"]
Null == [t |-> "null"]
NaN == [t |-> "NaN"]
Infinity == [t |-> "Infinity"]
NegInfinity == [t |-> "-Infinity"]
Num(v) == [t |-> "number", v |-> v]
Str(lead, core, trail) == [t |-> "string", lead |-> lead, core |-> core, trail |-> trail]

\* cores of trimmed text
EmptyCore == [k |-> "empty", len |-> 0]
Iso(d) == [k |-> "iso", day |-> d, len |-> 10]
IsoBad == [k |-> "isobad", len |-> 10]
Word(w, n) == [k |-> "word", w |-> w, len |-> n]
Text(n) == [k |-> "text", len |-> n]
NumText(v, n) == [k |-> "numtext", v |-> v, junk |-> FALSE, len |-> n]
NumJunk(v, n) == [k |-> "numtext", v |-> v, junk |-> TRUE, len |-> n]

IsString(x) == x.t = "string"
IsNumeric(x) == x.t \in {"number", "NaN", "Infinity", "-Infinity"}
IsNullish(x) == x.t \in {"undefined", "null"}
Length(s) == s.lead + s.core.len + s.trail
\* String.prototype.trim
Trim(s) == Str(0, s.core, 0)
\* ToBoolean
Truthy(x) ==
  CASE x.t = "undefined" -> FALSE
    [] x.t = "null" -> FALSE
    [] x.t = "NaN" -> FALSE
    [] x.t = "number" -> x.v # 0
    [] x.t = "string" -> Length(x) > 0
    [] OTHER -> TRUE

\* parseFloat: the longest numeric prefix after leading whitespace
parseFloat(x) ==
  CASE x.t \in {"number", "NaN", "Infinity", "-Infinity"} -> x
    [] x.t = "string" ->
         IF x.core.k = "numtext" THEN Num(x.core.v)
         ELSE IF x.core.k = "word" /\ x.core.w = "Infinity" THEN Infinity
         ELSE NaN
    [] OTHER -> NaN

\* ToNumber, as applied by the global isNaN
ToNumber(x) ==
  CASE x.t \in {"number", "NaN", "Infinity", "-Infinity"} -> x
    [] x.t = "null" -> Num(0)
    [] x.t = "string" ->
         IF Length(x) = x.lead + x.trail THEN Num(0)
         ELSE IF x.core.k = "numtext" /\ ~x.core.junk THEN Num(x.core.v)
         ELSE IF x.core.k = "word" /\ x.core.w = "Infinity" THEN Infinity
         ELSE NaN
    [] OTHER -> NaN
isNaN(x) == ToNumber(x).t = "NaN"

\* n <= bound and n > bound on numbers; every comparison with NaN is false
NumLE(n, bound) ==
  CASE n.t = "number" -> n.v <= bound
    [] n.t = "-Infinity" -> TRUE
    [] OTHER -> FALSE
NumGT(n, bound) ==
  CASE n.t = "number" -> n.v > bound
    [] n.t = "Infinity" -> TRUE
    [] OTHER -> FALSE

EmptyObject == [key \in {} |-> Undefined]
\* property read: a missing key reads as undefined
Get(obj, key) == IF key \in DOMAIN obj THEN obj[key] ELSE Undefined
\* object spread { ...a, ...b }
Spread(a, b) ==
  [key \in DOMAIN a \cup DOMAIN b |-> IF key \in DOMAIN b THEN b[key] ELSE a[key]]

\* ------------------------------------------------- utils/validators.js
VALID_CATEGORIES ==
  << Str(0, Word("Food", 4), 0), Str(0, Word("Transport", 9), 0),
     Str(0, Word("Entertainment", 13), 0), Str(0, Word("Utilities", 9), 0),
     Str(0, Word("Healthcare", 10), 0), Str(0, Word("Shopping", 8), 0),
     Str(0, Word("Other", 5), 0) >>
MaxAmount == 999999
MaxDescription == 255

Range(f) == {f[i] : i \in DOMAIN f}
Includes(seq, x) == x \in Range(seq)

\* /^\d{4}-\d{2}-\d{2}$/.test(dateStr) and the Date it parses to is not NaN
RegexYMD(x) == IsString(x) /\ x.lead = 0 /\ x.trail = 0 /\ x.core.k \in {"iso", "isobad"}
isValidDate(dateStr) == RegexYMD(dateStr) /\ dateStr.core.k = "iso"
\* new Date("YYYY-MM-DD").getTime(): UTC midnight of that day
DateInstant(dateStr) == dateStr.core.day * TicksPerDay

DateErrors(expense, clock) ==
  LET date == Get(expense, "date") IN
  IF ~Truthy(date) THEN << [field |-> "date", message |-> "Date is required"] >>
  ELSE IF ~isValidDate(date)
    THEN << [field |-> "date", message |-> "Invalid date format (use YYYY-MM-DD)"] >>
  ELSE IF DateInstant(date) > clock
    THEN << [field |-> "date", message |-> "Date cannot be in the future"] >>
  ELSE << >>

\* AmountErrors with the lower bound tested as amount < 0
AmountErrorsZeroAccepted(expense) ==
  LET amount == Get(expense, "amount") IN
  IF IsNullish(amount) \/ (IsString(amount) /\ Length(amount) = 0)
    THEN << [field |-> "amount", message |-> "Amount is required"] >>
  ELSE IF isNaN(amount)
    THEN << [field |-> "amount", message |-> "Amount must be a number"] >>
  ELSE IF NumLE(parseFloat(amount), 0 - 1)
    THEN << [field |-> "amount", message |-> "Amount must be greater than 0"] >>
  ELSE IF NumGT(parseFloat(amount), MaxAmount * Unit)
    THEN << [field |-> "amount", message |-> "Amount too large"] >>
  ELSE << >>

AmountErrors(expense) ==
  LET amount == Get(expense, "amount") IN
  IF IsNullish(amount) \/ (IsString(amount) /\ Length(amount) = 0)
    THEN << [field |-> "amount", message |-> "Amount is required"] >>
  ELSE IF isNaN(amount)
    THEN << [field |-> "amount", message |-> "Amount must be a number"] >>
  ELSE IF NumLE(parseFloat(amount), 0)
    THEN << [field |-> "amount", message |-> "Amount must be greater than 0"] >>
  ELSE IF NumGT(parseFloat(amount), MaxAmount * Unit)
    THEN << [field |-> "amount", message |-> "Amount too large"] >>
  ELSE << >>

CategoryErrors(expense) ==
  LET category == Get(expense, "category") IN
  IF ~Truthy(category)
    THEN << [field |-> "category", message |-> "Category is required"] >>
  ELSE IF ~Includes(VALID_CATEGORIES, category)
    THEN << [field |-> "category", message |-> "Category must be one of: Food, Transport, Entertainment, Utilities, Healthcare, Shopping, Other"] >>
  ELSE << >>

DescriptionErrors(expense) ==
  LET description == Get(expense, "description") IN
  IF Truthy(description) /\ ~IsString(description)
    THEN << [field |-> "description", message |-> "Description must be text"] >>
  ELSE IF Truthy(description) /\ Length(description) > MaxDescription
    THEN << [field |-> "description", message |-> "Description too long (max 255 chars)"] >>
  ELSE << >>

\* validateExpense stopping at the first field in error
validateExpenseFirstError(expense, clock) ==
  LET all == DateErrors(expense, clock) \o AmountErrors(expense)
             \o CategoryErrors(expense) \o DescriptionErrors(expense)
      errors == IF all = << >> THEN << >> ELSE << all[1] >>
  IN [isValid |-> Len(errors) = 0, errors |-> errors]

validateExpense(expense, clock) ==
  LET errors == DateErrors(expense, clock) \o AmountErrors(expense)
                \o CategoryErrors(expense) \o DescriptionErrors(expense)
  IN [isValid |-> Len(errors) = 0, errors |-> errors]

\* x?.trim(): undefined for null/undefined, TypeError when x has no trim method
CanTrim(x) == IsNullish(x) \/ IsString(x)
OptTrim(x) == IF IsNullish(x) THEN Undefined ELSE Trim(x)
SanitizeThrows(expense) ==
  \E key \in {"date", "category", "description"} : ~CanTrim(Get(expense, key))
sanitizeExpense(expense) ==
  [date |-> OptTrim(Get(expense, "date")),
   amount |-> parseFloat(Get(expense, "amount")),
   category |-> OptTrim(Get(expense, "category")),
   description |-> LET d == OptTrim(Get(expense, "description"))
                   IN IF Truthy(d) THEN d ELSE Null]

\* ------------------------------------------------------- src/utils.js
\* offsets of local time from UTC, in ticks
Zones == {0 - 1, 0, 1}
\* the calendar day of the instant clock in the zone with offset zone
LocalDay(clock, zone) == (clock + zone) \div TicksPerDay
\* today.setHours(0, 0, 0, 0): the instant of local midnight
LocalMidnight(clock, zone) == LocalDay(clock, zone) * TicksPerDay - zone

Message(text) == [t |-> "message", text |-> text]
\* src/utils.js validateExpenseForm: the first failing check's message, or null
\* (new Date(text) of text that is no date is Invalid Date and compares false)
validateExpenseForm(formData, clock, zone) ==
  LET date == Get(formData, "date")
      raw == Get(formData, "amount")
      amount == parseFloat(raw)
  IN IF ~Truthy(date) THEN Message("Date is required")
     ELSE IF date.core.k = "iso" /\ DateInstant(date) > LocalMidnight(clock, zone)
       THEN Message("Date cannot be in the future")
     ELSE IF ~Truthy(raw) THEN Message("Amount is required")
     ELSE IF amount.t = "NaN" THEN Message("Amount must be a valid number")
     ELSE IF NumLE(amount, 0) THEN Message("Amount must be greater than $0.00")
     ELSE IF NumGT(amount, MaxAmount * Unit) THEN Message("Amount is too large")
     ELSE IF ~Truthy(Get(formData, "category")) THEN Message("Category is required")
     ELSE Null

\* --------------------------------------------------- models/database.js
VARIABLES store, seq, now, env, reqs, assigned, app

vars == << store, seq, now, env, reqs, assigned, app >>

\* store: the rows of table expenses in rowid order; seq: the AUTOINCREMENT
\* counter (sqlite_sequence); now: the clock; env: process.env.NODE_ENV;
\* reqs: per connection, the request being handled and its response;
\* assigned: history of every id an INSERT has produced; app: the browser page
\* (appState, the rendered list, the dialog, the fetch in flight and the array
\* the resize listener closed over).

Columns == {"id", "date", "amount", "category", "description", "created_at"}
allowedFields == << "date", "amount", "category", "description" >>
NotNullColumns == {"date", "amount", "category"}

\* a bound parameter as SQLite stores it: undefined and null become NULL
Bind(x) == IF IsNullish(x) THEN Null ELSE x

RowIndex(s, id) == {i \in 1..Len(s) : s[i].id = Num(id * Unit)}

\* SELECT * FROM expenses WHERE id = ? (db.get: undefined when no row)
getExpenseById(s, id) ==
  IF RowIndex(s, id) = {} THEN Undefined ELSE s[CHOOSE i \in RowIndex(s, id) : TRUE]

\* InsertParams with category and description bound in each other's place
InsertParamsSwapped(expense) ==
  [date |-> Bind(Get(expense, "date")),
   amount |-> Bind(Get(expense, "amount")),
   category |-> LET d == Get(expense, "description")
                IN IF Truthy(d) THEN Bind(d) ELSE Null,
   description |-> Bind(Get(expense, "category"))]

\* INSERT INTO expenses (date, amount, category, description) VALUES (?, ?, ?, ?)
InsertParams(expense) ==
  [date |-> Bind(Get(expense, "date")),
   amount |-> Bind(Get(expense, "amount")),
   category |-> Bind(Get(expense, "category")),
   description |-> LET d == Get(expense, "description")
                   IN IF Truthy(d) THEN Bind(d) ELSE Null]
\* id INTEGER PRIMARY KEY AUTOINCREMENT: one more than the largest id ever used
MaxRowId(s) == IF s = << >> THEN 0 ELSE s[Len(s)].id.v \div Unit
\* NextRowId of a plain INTEGER PRIMARY KEY: one more than the largest id present
NextRowIdOfTable(s, counter) == MaxRowId(s) + 1
NextRowId(s, counter) == (IF counter > MaxRowId(s) THEN counter ELSE MaxRowId(s)) + 1
InsertRow(s, counter, params, clock) ==
  Append(s, [id |-> Num(NextRowId(s, counter) * Unit),
             date |-> params.date,
             amount |-> params.amount,
             category |-> params.category,
             description |-> params.description,
             created_at |-> Num(clock * Unit)])
ViolatesNotNull(params) == \E c \in NotNullColumns \cap DOMAIN params : params[c].t = "null"

\* UPDATE expenses SET <allowed fields present in updates> WHERE id = ?
\* UpdateFields without the allow-list: every column named in updates
UpdateFieldsAnyColumn(updates) == {f \in Columns : f \in DOMAIN updates}
UpdateFields(updates) == {f \in Range(allowedFields) : f \in DOMAIN updates}
\* UpdateRow as REPLACE INTO would do it: unnamed columns fall back to their default
UpdateRowReplace(row, updates) ==
  [c \in DOMAIN row |-> IF c \in UpdateFields(updates) THEN Bind(updates[c])
                        ELSE IF c = "id" THEN row[c] ELSE Null]
UpdateRow(row, updates) ==
  [c \in DOMAIN row |-> IF c \in UpdateFields(updates) THEN Bind(updates[c]) ELSE row[c]]
UpdateRows(s, id, updates) ==
  [i \in 1..Len(s) |-> IF i \in RowIndex(s, id) THEN UpdateRow(s[i], updates) ELSE s[i]]

\* DELETE FROM expenses WHERE id = ?
DeleteRows(s, id) ==
  LET Kept(row) == row.id # Num(id * Unit) IN SelectSeq(s, Kept)
Changes(s, id) == Cardinality(RowIndex(s, id))

IsRow(x) == "id" \in DOMAIN x

\* comparison of the REAL column amount with a bound parameter: a number or
\* well-formed numeric text compares numerically, any other text sorts after
\* every number
SqlNumeric(x) ==
  x.t = "number" \/ (x.t = "string" /\ x.core.k = "numtext" /\ ~x.core.junk)
SqlValue(x) == IF x.t = "number" THEN x.v ELSE x.core.v
SqlGE(amount, x) == SqlNumeric(x) /\ amount.v >= SqlValue(x)
SqlLE(amount, x) == IF SqlNumeric(x) THEN amount.v <= SqlValue(x) ELSE x.t = "string"

\* ORDER BY date DESC over rows taken in rowid order (ties keep that order)
DateKey(row) == row.date.core.day
RECURSIVE InsertByDateDesc(_, _)
InsertByDateDesc(sorted, row) ==
  IF sorted = << >> THEN << row >>
  ELSE IF DateKey(Head(sorted)) >= DateKey(row)
    THEN << Head(sorted) >> \o InsertByDateDesc(Tail(sorted), row)
  ELSE << row >> \o sorted
\* the rows as the table scan delivers them, without ORDER BY
OrderByNothing(s) == s
RECURSIVE OrderByDateDesc(_)
OrderByDateDesc(s) ==
  IF s = << >> THEN << >>
  ELSE InsertByDateDesc(OrderByDateDesc(SubSeq(s, 1, Len(s) - 1)), s[Len(s)])

UseCategory(options) == Truthy(Get(options, "category"))
UseRange(options) == Truthy(Get(options, "minAmount")) /\ Truthy(Get(options, "maxAmount"))
getAllExpenses(s, options) ==
  LET Matches(row) ==
        /\ UseCategory(options) => row.category = Get(options, "category")
        /\ UseRange(options) => /\ SqlGE(row.amount, Get(options, "minAmount"))
                                /\ SqlLE(row.amount, Get(options, "maxAmount"))
  IN OrderByDateDesc(SelectSeq(s, Matches))

\* SUM(amount) and ROUND(x, 2) (half away from zero); SUM of no rows is NULL
RECURSIVE SumAmount(_)
SumAmount(s) == IF s = << >> THEN 0 ELSE Head(s).amount.v + SumAmount(Tail(s))
SqlSum(s) == IF s = << >> THEN Null ELSE Num(SumAmount(s))
Round2(x) ==
  IF x.t = "null" THEN Null
  ELSE IF x.v >= 0 THEN Num(((x.v + Cent \div 2) \div Cent) * Cent)
  ELSE Num(0 - (((0 - x.v) + Cent \div 2) \div Cent) * Cent)
\* GROUP BY category delivers the groups in the collating order of their keys
CategoryOrder ==
  << VALID_CATEGORIES[3], VALID_CATEGORIES[1], VALID_CATEGORIES[5], VALID_CATEGORIES[7],
     VALID_CATEGORIES[6], VALID_CATEGORIES[2], VALID_CATEGORIES[4] >>
TotalCategory == Str(0, Word("TOTAL", 5), 0)
SummaryRow(rows, category) ==
  [totalCount |-> Num(Len(rows) * Unit),
   totalAmount |-> SqlSum(rows),
   category |-> category,
   categoryTotal |-> Round2(SqlSum(rows))]
\* GroupRows with a row for every category, also those without expenses
RECURSIVE GroupRowsZeroFilled(_, _)
GroupRowsZeroFilled(s, i) ==
  IF i > Len(CategoryOrder) THEN << >>
  ELSE LET InGroup(row) == row.category = CategoryOrder[i]
       IN << SummaryRow(SelectSeq(s, InGroup), CategoryOrder[i]) >>
          \o GroupRowsZeroFilled(s, i + 1)
RECURSIVE GroupRows(_, _)
GroupRows(s, i) ==
  IF i > Len(CategoryOrder) THEN << >>
  ELSE LET InGroup(row) == row.category = CategoryOrder[i]
           rows == SelectSeq(s, InGroup)
       IN (IF rows = << >> THEN << >> ELSE << SummaryRow(rows, CategoryOrder[i]) >>)
          \o GroupRows(s, i + 1)
getExpenseSummary(s) == GroupRows(s, 1) \o << SummaryRow(s, TotalCategory) >>

\* ------------------------------------ controllers/expenseController.js
Development == "development"
Production == "production"
\* NODE_ENV as set by the deployment; "test" stands for any other setting
Envs == {Development, Production, "test"}

errorHandler(err, nodeEnv) ==
  LET statusCode == IF "statusCode" \in DOMAIN err THEN err.statusCode ELSE 500
      errorCode == IF "code" \in DOMAIN err THEN err.code ELSE "INTERNAL_SERVER_ERROR"
      details == IF "details" \in DOMAIN err THEN err.details ELSE EmptyObject
  IN [status |-> statusCode,
      body |-> [success |-> FALSE,
                error |-> IF nodeEnv = Development
                          THEN [code |-> errorCode, message |-> err.message, details |-> details]
                          ELSE [code |-> errorCode, message |-> err.message]]]

ValidationFailed(errors) ==
  [message |-> "Validation failed", statusCode |-> 400, code |-> "VALIDATION_ERROR",
   details |-> [errors |-> errors]]
NotFound == [message |-> "Expense with ID <id> not found", statusCode |-> 404, code |-> "NOT_FOUND"]
TrimTypeError == [message |-> "trim is not a function"]
DeleteNoRow == [message |-> "Expense with ID <id> not found"]
NoFields == [message |-> "No valid fields to update"]
InsertFailed == [message |-> "Failed to add expense: NOT NULL constraint failed"]
UpdateFailed == [message |-> "Failed to update expense: NOT NULL constraint failed"]

Idle == [pc |-> "idle"]
Free(p) == reqs[p].pc \in {"idle", "done"}
Done(r, response) == [r EXCEPT !.pc = "done"] @@ [resp |-> response]
Pending(pcs) == Cardinality({p \in DOMAIN reqs : reqs[p].pc \in pcs})

\* POST /expenses: sanitize and validate on arrival, then queue the INSERT
createExpense(p, body) ==
  /\ Free(p)
  /\ seq + Pending({"insert"}) < MaxId
  /\ LET r == [pc |-> "insert", op |-> "POST", body |-> body] IN
     IF SanitizeThrows(body)
       THEN reqs' = [reqs EXCEPT ![p] = Done(r, errorHandler(TrimTypeError, env))]
     ELSE LET sanitized == sanitizeExpense(body)
              result == validateExpense(sanitized, now)
          IN IF ~result.isValid
               THEN reqs' = [reqs EXCEPT ![p] =
                      Done(r @@ [sanitized |-> sanitized],
                           errorHandler(ValidationFailed(result.errors), env))]
             ELSE reqs' = [reqs EXCEPT ![p] = r @@ [sanitized |-> sanitized]]
  /\ UNCHANGED << store, seq, now, env, assigned, app >>

\* addExpense: the INSERT statement executes
addExpenseRun(p) ==
  /\ reqs[p].pc = "insert"
  /\ LET params == InsertParams(reqs[p].sanitized)
         lastID == NextRowId(store, seq)
     IN IF ViolatesNotNull(params)
          THEN /\ reqs' = [reqs EXCEPT ![p] = Done(reqs[p], errorHandler(InsertFailed, env))]
               /\ UNCHANGED << store, seq, assigned >>
        ELSE /\ store' = InsertRow(store, seq, params, now)
             /\ seq' = lastID
             /\ assigned' = Append(assigned, lastID)
             /\ reqs' = [reqs EXCEPT ![p] = [reqs[p] EXCEPT !.pc = "inserted"] @@ [lastID |-> lastID]]
  /\ UNCHANGED << now, env, app >>

\* addExpense: getExpenseById(this.lastID) executes and the 201 is sent
addExpenseGet(p) ==
  /\ reqs[p].pc = "inserted"
  /\ reqs' = [reqs EXCEPT ![p] =
       Done(reqs[p], [status |-> 201,
                      body |-> [success |-> TRUE,
                                data |-> getExpenseById(store, reqs[p].lastID),
                                message |-> "Expense created successfully"]])]
  /\ UNCHANGED << store, seq, now, env, assigned, app >>

\* PUT /expenses/:id: the existence check executes; merge, sanitize, validate
updateExpenseData(p, id, body) ==
  /\ Free(p)
  /\ LET r == [pc |-> "update", op |-> "PUT", id |-> id, body |-> body]
         existing == getExpenseById(store, id)
     IN IF ~IsRow(existing)
          THEN reqs' = [reqs EXCEPT ![p] = Done(r, errorHandler(NotFound, env))]
        ELSE IF SanitizeThrows(Spread(existing, body))
          THEN reqs' = [reqs EXCEPT ![p] =
                 Done(r @@ [existing |-> existing], errorHandler(TrimTypeError, env))]
        ELSE LET updates == sanitizeExpense(Spread(existing, body))
                 result == validateExpense(updates, now)
                 rr == r @@ [existing |-> existing, updates |-> updates]
             IN IF ~result.isValid
                  THEN reqs' = [reqs EXCEPT ![p] =
                         Done(rr, errorHandler(ValidationFailed(result.errors), env))]
                ELSE reqs' = [reqs EXCEPT ![p] = rr]
  /\ UNCHANGED << store, seq, now, env, assigned, app >>

\* updateExpense: the UPDATE statement executes
updateExpenseRun(p) ==
  /\ reqs[p].pc = "update"
  /\ LET updates == reqs[p].updates IN
     IF UpdateFields(updates) = {}
       THEN /\ reqs' = [reqs EXCEPT ![p] = Done(reqs[p], errorHandler(NoFields, env))]
            /\ UNCHANGED store
     ELSE IF RowIndex(store, reqs[p].id) # {} /\ ViolatesNotNull(UpdateRow(updates, updates))
       THEN /\ reqs' = [reqs EXCEPT ![p] = Done(reqs[p], errorHandler(UpdateFailed, env))]
            /\ UNCHANGED store
     ELSE /\ store' = UpdateRows(store, reqs[p].id, updates)
          /\ reqs' = [reqs EXCEPT ![p].pc = "updated"]
  /\ UNCHANGED << seq, now, env, assigned, app >>

\* updateExpense: getExpenseById(id) executes and the 200 is sent
updateExpenseGet(p) ==
  /\ reqs[p].pc = "updated"
  /\ reqs' = [reqs EXCEPT ![p] =
       Done(reqs[p], [status |-> 200,
                      body |-> [success |-> TRUE,
                                data |-> getExpenseById(store, reqs[p].id),
                                message |-> "Expense updated successfully"]])]
  /\ UNCHANGED << store, seq, now, env, assigned, app >>

\* DELETE /expenses/:id: the existence check executes
removeExpense(p, id) ==
  /\ Free(p)
  /\ LET r == [pc |-> "delete", op |-> "DELETE", id |-> id] IN
     IF ~IsRow(getExpenseById(store, id))
       THEN reqs' = [reqs EXCEPT ![p] = Done(r, errorHandler(NotFound, env))]
     ELSE reqs' = [reqs EXCEPT ![p] = r]
  /\ UNCHANGED << store, seq, now, env, assigned, app >>

\* deleteExpense: the DELETE statement executes and the response is sent
deleteExpenseRun(p) ==
  /\ reqs[p].pc = "delete"
  /\ IF Changes(store, reqs[p].id) = 0
       THEN /\ reqs' = [reqs EXCEPT ![p] = Done(reqs[p], errorHandler(DeleteNoRow, env))]
            /\ UNCHANGED store
     ELSE /\ store' = DeleteRows(store, reqs[p].id)
          /\ reqs' = [reqs EXCEPT ![p] =
               Done(reqs[p], [status |-> 200,
                              body |-> [success |-> TRUE,
                                        message |-> "Expense deleted successfully",
                                        deletedId |-> reqs[p].id]])]
  /\ UNCHANGED << seq, now, env, assigned, app >>

\* GET /expenses: the SELECT executes and the 200 is sent
fetchAllExpenses(p, query) ==
  /\ Free(p)
  /\ LET expenses == getAllExpenses(store, query) IN
     reqs' = [reqs EXCEPT ![p] =
       [pc |-> "done", op |-> "GET", query |-> query,
        resp |-> [status |-> 200,
                  body |-> [success |-> TRUE, data |-> expenses, count |-> Len(expenses)]]]]
  /\ UNCHANGED << store, seq, now, env, assigned, app >>

\* GET /expenses/summary
getSummary(p) ==
  /\ Free(p)
  /\ reqs' = [reqs EXCEPT ![p] =
       [pc |-> "done", op |-> "SUMMARY",
        resp |-> [status |-> 200,
                  body |-> [success |-> TRUE, data |-> getExpenseSummary(store)]]]]
  /\ UNCHANGED << store, seq, now, env, assigned, app >>

\* the clock advances
Tick ==
  /\ now < MaxNow
  /\ now' = now + 1
  /\ UNCHANGED << store, seq, env, reqs, assigned, app >>

\* ---------------------------------------------------- client API layer
\* URLSearchParams.append(name, value): the value as text
ToText(x) == IF x.t = "number" THEN Str(0, NumText(x.v, 1), 0) ELSE x
FilterKeys == << "category", "minAmount", "maxAmount" >>
ClientQuery(filters) ==
  [key \in {k \in Range(FilterKeys) : Truthy(Get(filters, k))} |-> ToText(filters[key])]
\* getExpenses(filters): forwards the truthy filters as the query of GET /expenses
getExpenses(p, filters) ==
  /\ Free(p)
  /\ LET expenses == getAllExpenses(store, ClientQuery(filters)) IN
     reqs' = [reqs EXCEPT ![p] =
       [pc |-> "done", op |-> "CLIENT_GET", filters |-> filters, query |-> ClientQuery(filters),
        resp |-> [status |-> 200,
                  body |-> [success |-> TRUE, data |-> expenses, count |-> Len(expenses)]]]]
  /\ UNCHANGED << store, seq, now, env, assigned, app >>

\* ------------------------------------------------- browser application
\* no page is open
NoApp == [pc |-> "closed"]
NoRequest == [method |-> "none"]
NoDialog == [id |-> Null, answer |-> FALSE]
NoFetch == [outcome |-> Null]

\* what fetch() comes back with: the server's response, the answer of a
\* gateway in between (no JSON body), or no response at all
Delivered(resp) == [obtained |-> TRUE, status |-> resp.status, json |-> TRUE, body |-> resp.body]
BadGateway == [obtained |-> TRUE, status |-> 502, json |-> FALSE, body |-> EmptyObject]
Portal == [obtained |-> TRUE, status |-> 200, json |-> FALSE, body |-> EmptyObject]
NoResponse == [obtained |-> FALSE]
Transports == {"delivered", "gateway", "portal", "failed"}
\* the outcome of the fetch whose request connection r carries
Outcome(transport, r) ==
  CASE transport = "delivered" -> Delivered(r.resp)
    [] transport = "gateway" -> BadGateway
    [] transport = "portal" -> Portal
    [] OTHER -> NoResponse

\* response.ok
Ok(status) == status \in 200..299
NetworkMessage == "Network error. Check your internet connection."
\* handleErrorResponse: the error built from a non-OK response
handleErrorResponse(response) ==
  IF response.json
    THEN LET data == response.body
             error == IF "error" \in DOMAIN data THEN data.error ELSE EmptyObject
         IN [message |-> IF "message" \in DOMAIN error THEN error.message ELSE "An error occurred",
             statusCode |-> response.status]
            @@ [key \in DOMAIN error \cap {"code", "details"} |-> error[key]]
  ELSE [message |-> "HTTP <status>: <statusText>"]
handleNetworkError(error) == [message |-> NetworkMessage, originalError |-> error]
Throw(error) == [thrown |-> TRUE, value |-> error]
Return(value) == [thrown |-> FALSE, value |-> value]
\* fetchAPI: what the call returns or throws for an outcome of fetch()
fetchAPI(outcome) ==
  IF ~outcome.obtained THEN Throw(handleNetworkError([message |-> "Failed to fetch"]))
  ELSE IF ~Ok(outcome.status)
    THEN LET error == handleErrorResponse(outcome) IN
         IF "statusCode" \in DOMAIN error /\ error.statusCode # 0
           THEN Throw(error)
         ELSE Throw(handleNetworkError(error))
  ELSE IF outcome.json THEN Return(outcome.body)
  ELSE Throw(handleNetworkError([message |-> "Unexpected token < in JSON"]))

\* renderExpenseList: the data-id attributes of the delete buttons drawn
renderExpenseList(expenses) == [i \in 1..Len(expenses) |-> ToText(expenses[i].id)]
\* sortByDateDesc (Array.prototype.sort is stable)
sortByDateDesc(expenses) == OrderByDateDesc(expenses)
\* the id in the URL /expenses/<id> as the route parameter reads it
ParamId(text) == text.core.v \div Unit

Fetched(outcome) == [outcome |-> outcome, result |-> fetchAPI(outcome)]
\* the await ends: the response is there, or the transport gave up
Settled(p, transport) ==
  IF transport = "delivered" THEN reqs[p].pc = "done" ELSE reqs[p].pc \in {"idle", "done"}

\* initializeApp -> loadExpenses: showLoading() and the GET is issued
loadExpenses ==
  /\ app.pc = "init"
  /\ app' = [app EXCEPT !.pc = "loading", !.rendered = << >>, !.request = [method |-> "GET"]]
  /\ UNCHANGED << store, seq, now, env, reqs, assigned >>

\* loadExpenses after the await; initializeApp then installs the listeners:
\* setupResponsiveListener(appState.expenses) closes over the current array
loadExpensesDone(p, transport) ==
  /\ app.pc = "loading"
  /\ Settled(p, transport)
  /\ LET fetched == Fetched(Outcome(transport, reqs[p]))
         response == fetched.result.value
         expenses == IF "data" \in DOMAIN response THEN response.data ELSE << >>
     IN IF fetched.result.thrown
          THEN app' = [app EXCEPT !.pc = "ready", !.request = NoRequest, !.last = fetched,
                                  !.captured = app.expenses, !.shared = TRUE]
        ELSE app' = [app EXCEPT !.pc = "ready", !.request = NoRequest, !.last = fetched,
                                !.expenses = sortByDateDesc(expenses),
                                !.rendered = renderExpenseList(sortByDateDesc(expenses)),
                                !.captured = sortByDateDesc(expenses), !.shared = TRUE]
  /\ reqs' = [reqs EXCEPT ![p] = Idle]
  /\ UNCHANGED << store, seq, now, env, assigned >>

\* onFormSubmit: client-side validation, then the POST is issued
onFormSubmit(formData) ==
  /\ app.pc = "ready"
  /\ IF validateExpenseForm(formData, now, app.zone) # Null
       THEN app' = [app EXCEPT !.last = NoFetch]
     ELSE app' = [app EXCEPT !.pc = "adding", !.request = [method |-> "POST", body |-> formData]]
  /\ UNCHANGED << store, seq, now, env, reqs, assigned >>

\* onFormSubmit after the await: unshift (in place, so an array shared with
\* the resize listener changes too) and re-render, or show the error
onFormSubmitDone(p, transport) ==
  /\ app.pc = "adding"
  /\ Settled(p, transport)
  /\ LET fetched == Fetched(Outcome(transport, reqs[p]))
         response == fetched.result.value
         newExpense == IF "data" \in DOMAIN response THEN response.data ELSE Undefined
     IN IF fetched.result.thrown
          THEN app' = [app EXCEPT !.pc = "ready", !.request = NoRequest, !.last = fetched]
        ELSE app' = [app EXCEPT !.pc = "ready", !.request = NoRequest, !.last = fetched,
                                !.expenses = << newExpense >> \o app.expenses,
                                !.rendered = renderExpenseList(<< newExpense >> \o app.expenses),
                                !.captured = IF app.shared THEN << newExpense >> \o app.expenses
                                             ELSE app.captured]
  /\ reqs' = [reqs EXCEPT ![p] = Idle]
  /\ UNCHANGED << store, seq, now, env, assigned >>

\* a click on a delete button of the list: handleDeleteClick opens confirm()
handleDeleteClick(id) ==
  /\ app.pc = "ready"
  /\ id \in Range(app.rendered)
  /\ app' = [app EXCEPT !.pc = "confirm", !.dialog = [id |-> id, answer |-> FALSE]]
  /\ UNCHANGED << store, seq, now, env, reqs, assigned >>

\* confirmAnswered that calls onDeleteExpense whatever the answer
confirmIgnored(answer) ==
  /\ app.pc = "confirm"
  /\ app' = [app EXCEPT !.pc = "deleting", !.dialog.answer = answer,
                        !.request = [method |-> "DELETE", id |-> app.dialog.id]]
  /\ UNCHANGED << store, seq, now, env, reqs, assigned >>

\* confirm() returns: onDeleteExpense(id) issues the DELETE if it was affirmed
confirmAnswered(answer) ==
  /\ app.pc = "confirm"
  /\ IF answer
       THEN app' = [app EXCEPT !.pc = "deleting", !.dialog.answer = TRUE,
                               !.request = [method |-> "DELETE", id |-> app.dialog.id]]
     ELSE app' = [app EXCEPT !.pc = "ready", !.dialog.answer = FALSE]
  /\ UNCHANGED << store, seq, now, env, reqs, assigned >>

\* onDeleteExpense after the await: filter (a new array is assigned to
\* appState.expenses) and re-render, or show the error
onDeleteExpenseDone(p, transport) ==
  /\ app.pc = "deleting"
  /\ Settled(p, transport)
  /\ LET fetched == Fetched(Outcome(transport, reqs[p]))
         id == app.request.id
         Kept(e) == e.id # id
     IN IF fetched.result.thrown
          THEN app' = [app EXCEPT !.pc = "ready", !.request = NoRequest, !.last = fetched]
        ELSE app' = [app EXCEPT !.pc = "ready", !.request = NoRequest, !.last = fetched,
                                !.expenses = SelectSeq(app.expenses, Kept),
                                !.rendered = renderExpenseList(SelectSeq(app.expenses, Kept)),
                                !.shared = FALSE]
  /\ reqs' = [reqs EXCEPT ![p] = Idle]
  /\ UNCHANGED << store, seq, now, env, assigned >>

\* the window is resized: the listener renders the array it closed over
onResize ==
  /\ app.pc \in {"ready", "adding", "deleting"}
  /\ app' = [app EXCEPT !.rendered = renderExpenseList(app.captured)]
  /\ UNCHANGED << store, seq, now, env, reqs, assigned >>

\* ------------------------------------------------------------- inputs
Without(obj, key) == [k \in DOMAIN obj \ {key} |-> obj[k]]
With(obj, key, value) == Spread(obj, key :> value)
Plain(core) == Str(0, core, 0)
Food == VALID_CATEGORIES[1]
Transport == VALID_CATEGORIES[2]

\* POST bodies of the write pipeline: two valid ones and one-field variations
BodyA == [date |-> Str(1, Iso(0), 1), amount |-> Num(MaxAmount * Unit),
          category |-> Str(1, Word("Food", 4), 1), description |-> Plain(EmptyCore)]
BodyB == [date |-> Plain(Iso(1)), amount |-> Plain(NumText((85 * Unit) \div 2, 5)),
          category |-> Transport, description |-> Str(2, Text(1), 1)]
ValidBodies == {BodyA, BodyB}

BadDates == {Plain(IsoBad), Plain(Text(8)), Plain(Iso(2)), Plain(EmptyCore), Num(5 * Unit)}
BadAmounts == {Num(0), Num(0 - Unit), Num(MaxAmount * Unit + 1), Plain(Text(3)),
               Plain(Word("Infinity", 8)), Null}
BadCategories == {Plain(Word("food", 4)), Plain(Word("TOTAL", 5)), Plain(EmptyCore), Num(Unit)}
BadDescriptions == {Plain(Text(MaxDescription + 1)), Num(7 * Unit)}
InvalidBodies ==
  {With(BodyA, "date", x) : x \in BadDates} \cup {Without(BodyA, "date")}
  \cup {With(BodyA, "amount", x) : x \in BadAmounts} \cup {Without(BodyA, "amount")}
  \cup {With(BodyA, "category", x) : x \in BadCategories} \cup {Without(BodyA, "category")}
  \cup {With(BodyA, "description", x) : x \in BadDescriptions}
  \cup {[amount |-> Num(0), description |-> Plain(Text(MaxDescription + 1))]}
PostBodies == ValidBodies \cup InvalidBodies

PutBodies ==
  {EmptyObject,
   [amount |-> Plain(NumJunk(12 * Unit, 5))],
   [id |-> Num(9 * Unit), created_at |-> Num(0), description |-> Plain(EmptyCore)]}
  \cup {[date |-> Plain(Iso(2))]}
  \cup {[amount |-> x] : x \in {Num(0), Num(MaxAmount * Unit + 1), Plain(Text(3))}}
  \cup {[category |-> Plain(Word("food", 4))]}
  \cup {[description |-> x] : x \in BadDescriptions}
Ids == 1..MaxId

WithKeys(values) == [key \in {k \in DOMAIN values : values[k] # Undefined} |-> values[key]]
NoFilter == {EmptyObject}

\* ------------------------------------------------------ specifications
Init ==
  /\ store = << >>
  /\ seq = 0
  /\ now = TicksPerDay - 1
  /\ env \in Envs
  /\ reqs = [p \in {1} |-> Idle]
  /\ assigned = << >>
  /\ app = NoApp

\* the write pipeline, one request at a time
Next ==
  \E p \in {1} :
    \/ \E body \in PostBodies : createExpense(p, body)
    \/ addExpenseRun(p)
    \/ addExpenseGet(p)
    \/ \E id \in Ids, body \in PutBodies : updateExpenseData(p, id, body)
    \/ updateExpenseRun(p)
    \/ updateExpenseGet(p)
    \/ \E id \in Ids : removeExpense(p, id)
    \/ deleteExpenseRun(p)
    \/ \E query \in NoFilter : fetchAllExpenses(p, query)
    \/ \E filters \in NoFilter : getExpenses(p, filters)
    \/ getSummary(p)
    \/ Tick

Spec == Init /\ [][Next]_vars

\* ---- the query side: few writes, many filters
HalfCent == Unit \div 200
QueryBodies ==
  {[date |-> Plain(Iso(0)), amount |-> Num(HalfCent), category |-> Food],
   [date |-> Plain(Iso(1)), amount |-> Num((85 * Unit) \div 2), category |-> Food],
   [date |-> Plain(Iso(0)), amount |-> Num((85 * Unit) \div 2), category |-> Transport],
   [date |-> Plain(Iso(0)), amount |-> Num(0), category |-> Food]}
QueryPutBodies == {[category |-> VALID_CATEGORIES[7]]}
RangePairs ==
  {<< Undefined, Undefined >>,
   << Num(0), Num(HalfCent) >>,
   << Plain(NumText(0, 1)), Plain(NumText(HalfCent, 5)) >>,
   << Num(HalfCent), Num(HalfCent) >>,
   << Num(HalfCent), Num(0) >>,
   << Num(HalfCent), Undefined >>,
   << Undefined, Num((85 * Unit) \div 2) >>,
   << Plain(EmptyCore), Plain(NumText(HalfCent, 5)) >>}
Filters ==
  {WithKeys([category |-> c, minAmount |-> r[1], maxAmount |-> r[2]]) :
     c \in {Undefined, Food, Transport}, r \in RangePairs}
\* req.query carries text only
Queries == {f \in Filters : \A k \in DOMAIN f : IsString(f[k])}

InitQuery ==
  /\ store = << >>
  /\ seq = 0
  /\ now = TicksPerDay - 1
  /\ env = Production
  /\ reqs = [p \in {1} |-> Idle]
  /\ assigned = << >>
  /\ app = NoApp

NextQuery ==
  \E p \in {1} :
    \/ \E body \in QueryBodies : createExpense(p, body)
    \/ addExpenseRun(p)
    \/ addExpenseGet(p)
    \/ \E id \in Ids, body \in QueryPutBodies : updateExpenseData(p, id, body)
    \/ updateExpenseRun(p)
    \/ updateExpenseGet(p)
    \/ \E id \in Ids : removeExpense(p, id)
    \/ deleteExpenseRun(p)
    \/ \E query \in Queries : fetchAllExpenses(p, query)
    \/ \E filters \in Filters : getExpenses(p, filters)
    \/ getSummary(p)
    \/ Tick

SpecQuery == InitQuery /\ [][NextQuery]_vars

\* ---- two connections handled concurrently
ConcProcs == {1, 2}
\* the concurrent requests address the first expense
ConcIds == {1}
ConcBodies == {[date |-> Plain(Iso(0)), amount |-> Num(5 * Unit), category |-> Food]}
ConcPutBodies == {[amount |-> Num(7 * Unit)], [category |-> Transport]}

InitConc ==
  /\ store = << >>
  /\ seq = 0
  /\ now = TicksPerDay - 1
  /\ env = Production
  /\ reqs = [p \in ConcProcs |-> Idle]
  /\ assigned = << >>
  /\ app = NoApp

NextConc ==
  \/ \E p \in ConcProcs :
       \/ \E body \in ConcBodies : createExpense(p, body)
       \/ addExpenseRun(p)
       \/ addExpenseGet(p)
       \/ \E id \in ConcIds, body \in ConcPutBodies : updateExpenseData(p, id, body)
       \/ updateExpenseRun(p)
       \/ updateExpenseGet(p)
       \/ \E id \in ConcIds : removeExpense(p, id)
       \/ deleteExpenseRun(p)
  \/ \E p \in {1} :
       \/ \E query \in NoFilter : fetchAllExpenses(p, query)
       \/ \E filters \in NoFilter : getExpenses(p, filters)
       \/ getSummary(p)
  \/ Tick

SpecConc == InitConc /\ [][NextConc]_vars

\* ---- the validators called directly, on the server and in the browser
\* a call validateExpense(expense)
callValidateExpense(p, expense) ==
  /\ Free(p)
  /\ reqs' = [reqs EXCEPT ![p] =
       [pc |-> "done", op |-> "VALIDATE", expense |-> expense, clock |-> now,
        result |-> validateExpense(expense, now)]]
  /\ UNCHANGED << store, seq, now, env, assigned, app >>

\* a call validateExpenseForm(formData) in a browser of the given time zone
callValidateExpenseForm(p, formData, zone) ==
  /\ Free(p)
  /\ reqs' = [reqs EXCEPT ![p] =
       [pc |-> "done", op |-> "FORM", formData |-> formData, clock |-> now, zone |-> zone,
        result |-> validateExpenseForm(formData, now, zone)]]
  /\ UNCHANGED << store, seq, now, env, assigned, app >>

\* candidate records with the field types sanitizeExpense produces
CandidateDates ==
  {Undefined, Plain(EmptyCore), Plain(Iso(0)), Plain(Iso(1)), Plain(Iso(2)), Plain(IsoBad)}
CandidateAmounts ==
  {Num(Cent), Num(0), Num(0 - Unit), Num(MaxAmount * Unit), Num(MaxAmount * Unit + 1),
   NaN, Infinity}
CandidateCategories == {Undefined, Plain(EmptyCore), Food, Plain(Word("food", 4))}
CandidateDescriptions == {Null, Plain(Text(MaxDescription)), Plain(Text(MaxDescription + 1))}
Candidates ==
  {[date |-> d, amount |-> a, category |-> c, description |-> s] :
     d \in CandidateDates, a \in CandidateAmounts,
     c \in CandidateCategories, s \in CandidateDescriptions}
\* what the form's inputs hold: text
FormData ==
  {[date |-> d, amount |-> a, category |-> c, description |-> Plain(EmptyCore)] :
     d \in {Plain(EmptyCore), Plain(Iso(0)), Plain(Iso(1)), Plain(Iso(2))},
     a \in {Plain(EmptyCore), Plain(NumText(5 * Unit, 1)), Plain(NumText(0, 1)), Plain(Text(3))},
     c \in {Plain(EmptyCore), Food}}

InitValidate ==
  /\ store = << >>
  /\ seq = 0
  /\ now = TicksPerDay - 1
  /\ env = Production
  /\ reqs = [p \in {1} |-> Idle]
  /\ assigned = << >>
  /\ app = NoApp

NextValidate ==
  \E p \in {1} :
    \/ \E expense \in Candidates : callValidateExpense(p, expense)
    \/ \E formData \in FormData, zone \in Zones : callValidateExpenseForm(p, formData, zone)
    \/ Tick

SpecValidate == InitValidate /\ [][NextValidate]_vars

\* ---- the store operations called directly
\* a call updateExpense(id, updates)
updateExpense(p, id, updates) ==
  /\ Free(p)
  /\ reqs' = [reqs EXCEPT ![p] = [pc |-> "update", op |-> "UPDATE", id |-> id, updates |-> updates]]
  /\ UNCHANGED << store, seq, now, env, assigned, app >>

StoreBodies ==
  {[date |-> Plain(Iso(0)), amount |-> Num(5 * Unit), category |-> Food],
   [date |-> Plain(Iso(1)), amount |-> Num(7 * Unit), category |-> Transport,
    description |-> Plain(Text(4))]}
StoreUpdates ==
  {EmptyObject,
   [id |-> Num(9 * Unit)],
   [id |-> Num(9 * Unit), created_at |-> Num(0)],
   [note |-> Plain(Text(4))],
   [amount |-> Num(9 * Unit)],
   [id |-> Num(9 * Unit), category |-> Transport],
   [description |-> Null, date |-> Plain(Iso(0))],
   [amount |-> Null]}

InitStore ==
  /\ store = << >>
  /\ seq = 0
  /\ now = TicksPerDay - 1
  /\ env = Production
  /\ reqs = [p \in {1} |-> Idle]
  /\ assigned = << >>
  /\ app = NoApp

NextStore ==
  \E p \in {1} :
    \/ \E body \in StoreBodies : createExpense(p, body)
    \/ addExpenseRun(p)
    \/ addExpenseGet(p)
    \/ \E id \in Ids, updates \in StoreUpdates : updateExpense(p, id, updates)
    \/ updateExpenseRun(p)
    \/ updateExpenseGet(p)
    \/ \E id \in Ids : removeExpense(p, id)
    \/ deleteExpenseRun(p)
    \/ Tick

SpecStore == InitStore /\ [][NextStore]_vars

\* ---- one page and the server behind it
ClientForms ==
  {[date |-> Plain(Iso(0)), amount |-> Plain(NumText(5 * Unit, 1)), category |-> Food,
    description |-> Plain(EmptyCore)],
   [date |-> Plain(Iso(0)), amount |-> Plain(NumText(7 * Unit, 1)), category |-> Transport,
    description |-> Plain(Text(MaxDescription + 1))],
   [date |-> Plain(Iso(0)), amount |-> Plain(EmptyCore), category |-> Food,
    description |-> Plain(EmptyCore)],
   [date |-> Plain(Iso(1)), amount |-> Plain(NumText(7 * Unit, 1)), category |-> Transport,
    description |-> Plain(EmptyCore)]}

InitClient ==
  /\ store = << >>
  /\ seq = 0
  /\ now = TicksPerDay - 1
  /\ env = Production
  /\ reqs = [p \in {1} |-> Idle]
  /\ assigned = << >>
  /\ \E zone \in {0 - 1, 0} :
       app = [pc |-> "init", expenses |-> << >>, rendered |-> << >>, dialog |-> NoDialog,
              request |-> NoRequest, last |-> NoFetch, zone |-> zone,
              captured |-> << >>, shared |-> TRUE]

\* the server handles on connection 1 the request the page has in flight
NextClient ==
  \/ loadExpenses
  \/ \E transport \in Transports : loadExpensesDone(1, transport)
  \/ \E formData \in ClientForms : onFormSubmit(formData)
  \/ \E transport \in Transports : onFormSubmitDone(1, transport)
  \/ \E id \in {ToText(Num(i * Unit)) : i \in Ids} : handleDeleteClick(id)
  \/ \E answer \in BOOLEAN : confirmAnswered(answer)
  \/ \E transport \in Transports : onDeleteExpenseDone(1, transport)
  \/ onResize
  \/ app.pc = "loading" /\ reqs[1].pc = "idle" /\ getExpenses(1, EmptyObject)
  \/ app.pc = "adding" /\ reqs[1].pc = "idle" /\ createExpense(1, app.request.body)
  \/ addExpenseRun(1)
  \/ addExpenseGet(1)
  \/ app.pc = "deleting" /\ reqs[1].pc = "idle" /\ removeExpense(1, ParamId(app.request.id))
  \/ deleteExpenseRun(1)
  \/ Tick

SpecClient == InitClient /\ [][NextClient]_vars

\* ---- requests whose body the JSON body parser cannot read
\* the errors bodyParser.json() passes to next(): a status, no code
ParseFailed == [message |-> "Unexpected token in JSON", statusCode |-> 400]
TooLarge == [message |-> "request entity too large", statusCode |-> 413]
ParserFailures == {ParseFailed, TooLarge}

\* a request stopped in bodyParser.json(): the error goes to errorHandler
bodyParserJson(p, failure) ==
  /\ Free(p)
  /\ reqs' = [reqs EXCEPT ![p] =
       Done([pc |-> "parse", op |-> "PARSE", failure |-> failure], errorHandler(failure, env))]
  /\ UNCHANGED << store, seq, now, env, assigned, app >>

ErrorBodies ==
  {BodyA, With(BodyA, "amount", Num(0)), With(BodyA, "description", Num(7 * Unit))}
ErrorPutBodies == {EmptyObject, [category |-> Plain(Word("food", 4))]}

InitErrors ==
  /\ store = << >>
  /\ seq = 0
  /\ now = TicksPerDay - 1
  /\ env \in Envs
  /\ reqs = [p \in {1} |-> Idle]
  /\ assigned = << >>
  /\ app = NoApp

NextErrors ==
  \E p \in {1} :
    \/ \E failure \in ParserFailures : bodyParserJson(p, failure)
    \/ \E body \in ErrorBodies : createExpense(p, body)
    \/ addExpenseRun(p)
    \/ addExpenseGet(p)
    \/ \E id \in Ids, body \in ErrorPutBodies : updateExpenseData(p, id, body)
    \/ updateExpenseRun(p)
    \/ updateExpenseGet(p)
    \/ \E id \in Ids : removeExpense(p, id)
    \/ deleteExpenseRun(p)
    \/ Tick

SpecErrors == InitErrors /\ [][NextErrors]_vars

\* ---------------------------------------------------------- properties
Conns == DOMAIN reqs
IsDone(p, op) == reqs[p].pc = "done" /\ reqs[p].op = op
Answered(p, op, status) == IsDone(p, op) /\ reqs[p].resp.status = status
StoreIds == {store[i].id : i \in 1..Len(store)}
HasFieldError(errors, field) == \E i \in 1..Len(errors) : errors[i].field = field

\* C1: every row of the store satisfies the validator's rules: the date is a
\* YYYY-MM-DD calendar date not after the time the row was written, the amount
\* is a number with 0 < amount <= 999999, the category is one of the seven
\* enumerated values, and the description is null or text of at most 255
\* characters.
RowSatisfiesRules(row, clock) ==
  /\ IsString(row.date) /\ Length(row.date) = 10 /\ row.date.core.k = "iso"
  /\ row.date.core.day * TicksPerDay <= clock
  /\ row.amount.t = "number" /\ row.amount.v > 0 /\ row.amount.v <= 999999 * Unit
  /\ \E i \in 1..7 : row.category = VALID_CATEGORIES[i]
  /\ \/ row.description.t = "null"
     \/ IsString(row.description) /\ Length(row.description) <= 255
C1_StoredRowsValid == \A i \in 1..Len(store) : RowSatisfiesRules(store[i], now)
\* a row written by an update sits next to one written by a create, after a delete
C1_Witness ==
  /\ Answered(1, "PUT", 200)
  /\ Len(store) >= 1 /\ Len(assigned) > Len(store)
  /\ \E i \in 1..Len(store) : store[i].amount = Num(12 * Unit)

\* C2: every create or update whose sanitized (merged) record has amount <= 0
\* or amount > 999999 is answered with a validation failure whose body carries
\* an error for field 'amount', and the store is the same after the request as
\* before it.
Arrives(p) ==
  /\ reqs[p].pc \in {"idle", "done"}
  /\ reqs'[p] # reqs[p]
  /\ reqs'[p].pc # "idle"
CheckedRecord(r) ==
  IF "sanitized" \in DOMAIN r THEN r.sanitized
  ELSE IF "updates" \in DOMAIN r THEN r.updates
  ELSE [amount |-> Undefined]
AmountOutOfRange(amount) ==
  \/ amount.t = "number" /\ (amount.v <= 0 \/ amount.v > 999999 * Unit)
  \/ amount.t \in {"Infinity", "-Infinity"}
IsValidationFailure(resp) ==
  /\ resp.status = 400
  /\ resp.body.success = FALSE
  /\ resp.body.error.code = "VALIDATION_ERROR"
CarriesFieldError(resp, field) ==
  /\ "details" \in DOMAIN resp.body.error
  /\ "errors" \in DOMAIN resp.body.error.details
  /\ HasFieldError(resp.body.error.details.errors, field)
C2_AmountRejectedInResponse ==
  [][\A p \in Conns :
       (Arrives(p) /\ AmountOutOfRange(CheckedRecord(reqs'[p]).amount))
         => /\ reqs'[p].pc = "done"
            /\ IsValidationFailure(reqs'[p].resp)
            /\ CarriesFieldError(reqs'[p].resp, "amount")
            /\ store' = store]_vars

\* C3: a DELETE whose id is not in the store when its delete statement runs is
\* answered with 404 and code NOT_FOUND, in every interleaving.
C3_DeleteOfMissingIsNotFound ==
  [][\A p \in Conns :
       (reqs[p].pc = "delete" /\ RowIndex(store, reqs[p].id) = {} /\ reqs'[p].pc = "done")
         => /\ reqs'[p].resp.status = 404
            /\ reqs'[p].resp.body.error.code = "NOT_FOUND"]_vars

\* C4: a successful PUT leaves the row's id and created_at unchanged, also when
\* the body supplies id or created_at, and leaves each of date, amount,
\* category, description that is absent from the body at its value before the
\* request.
C4_UpdateFrame ==
  \A p \in Conns :
    Answered(p, "PUT", 200) =>
      LET before == reqs[p].existing
          after == getExpenseById(store, reqs[p].id)
      IN /\ IsRow(after)
         /\ after.id = before.id
         /\ after.created_at = before.created_at
         /\ \A f \in {"date", "amount", "category", "description"} \ DOMAIN reqs[p].body :
              after[f] = before[f]
\* a PUT that names id and created_at and changes the description has succeeded
C4_Witness ==
  \E p \in Conns :
    /\ Answered(p, "PUT", 200)
    /\ {"id", "created_at"} \subseteq DOMAIN reqs[p].body
    /\ reqs[p].existing.description # Null
    /\ getExpenseById(store, reqs[p].id).description = Null

\* C5: every id assigned by a create differs from every id assigned earlier,
\* ids of deleted rows included, and no two rows of the store share an id.
C5_IdsNeverReused ==
  /\ \A i, j \in 1..Len(assigned) : i # j => assigned[i] # assigned[j]
  /\ \A i, j \in 1..Len(store) : i # j => store[i].id # store[j].id
\* the second create completed after the first row had been deleted
C5_Witness ==
  /\ Answered(1, "POST", 201)
  /\ reqs[1].lastID = 2
  /\ StoreIds = {Num(2 * Unit)}

\* C6: for a record that passes validation after sanitization, create followed
\* by getById of the returned id yields the date, amount, category and
\* description of the sanitized input (an absent or empty description as
\* null), and create returns the same record as getById.
C6_CreateRoundTrip ==
  \A p \in Conns :
    Answered(p, "POST", 201) =>
      LET created == reqs[p].resp.body.data
          input == reqs[p].sanitized
          d == Get(reqs[p].body, "description")
      IN /\ IsRow(created)
         /\ LET got == getExpenseById(store, created.id.v \div Unit)
            IN /\ got = created
               /\ got.date = input.date
               /\ got.amount = input.amount
               /\ got.category = input.category
               /\ got.description = input.description
               /\ (IsNullish(d) \/ Length(d) = d.lead + d.trail) => got.description = Null
\* the created record came from padded text and a textual amount
C6_Witness ==
  \E p \in Conns :
    /\ Answered(p, "POST", 201)
    /\ IsString(reqs[p].body.amount)
    /\ reqs[p].body.description.lead > 0
    /\ reqs[p].resp.body.data.description = Plain(Text(1))
    /\ reqs[p].resp.body.data.amount = Num((85 * Unit) \div 2)

RECURSIVE SumOf(_)
SumOf(rows) == IF rows = << >> THEN 0 ELSE rows[1].amount.v + SumOf(Tail(rows))
RowsOfCategory(rows, category) ==
  LET Same(row) == row.category = category IN SelectSeq(rows, Same)
SummaryData(p) == reqs[p].resp.body.data

\* C7: summary() gives for each category the sum and the number of the listAll()
\* rows of that category, its TOTAL row carries the sum and count over all rows,
\* and on the empty store the result is empty or has zero totals.
C7_SummaryTotals ==
  \A p \in Conns :
    IsDone(p, "SUMMARY") =>
      LET data == SummaryData(p)
          listed == getAllExpenses(store, EmptyObject)
          Agrees(line, rows) ==
            /\ line.totalAmount = Num(SumOf(rows))
            /\ line.totalCount = Num(Len(rows) * Unit)
      IN /\ reqs[p].resp.status = 200
         /\ \A k \in 1..Len(listed) :
              \E i \in 1..Len(data) :
                /\ data[i].category = listed[k].category
                /\ Agrees(data[i], RowsOfCategory(listed, listed[k].category))
         /\ IF listed = << >>
              THEN \A i \in 1..Len(data) : Agrees(data[i], << >>)
            ELSE \E i \in 1..Len(data) :
                   data[i].category = TotalCategory /\ Agrees(data[i], listed)

Listed(p) == reqs[p].resp.body.data
Given(p) == IF reqs[p].op = "CLIENT_GET" THEN reqs[p].filters ELSE reqs[p].query
IsNumberLike(x) == x.t = "number" \/ (x.t = "string" /\ x.core.k = "numtext")
ValueOf(x) == IF x.t = "number" THEN x.v ELSE x.core.v
CategoryMatches(row, given) ==
  "category" \in DOMAIN given => row.category = given.category
SameRows(data, expected) ==
  /\ Range(data) = expected
  /\ Len(data) = Cardinality(expected)
C9_RangeFilter ==
  \A p \in Conns :
    (IsDone(p, "GET") \/ IsDone(p, "CLIENT_GET")) =>
      LET given == Given(p)
          bounds == {"minAmount", "maxAmount"} \cap DOMAIN given
      IN /\ (bounds = {"minAmount", "maxAmount"}
               /\ IsNumberLike(given.minAmount) /\ IsNumberLike(given.maxAmount))
             => SameRows(Listed(p),
                  {row \in Range(store) :
                     /\ CategoryMatches(row, given)
                     /\ ValueOf(given.minAmount) <= row.amount.v
                     /\ row.amount.v <= ValueOf(given.maxAmount)})
         /\ Cardinality(bounds) < 2
             => SameRows(Listed(p), {row \in Range(store) : CategoryMatches(row, given)})

\* C10: listAll({category: c}) returns exactly the stored rows whose category is
\* c, in date-descending order, and an empty sequence when no row matches.
C10_CategoryFilter ==
  \A p \in Conns :
    (IsDone(p, "GET") /\ DOMAIN reqs[p].query = {"category"}) =>
      LET data == Listed(p) IN
      /\ reqs[p].resp.status = 200
      /\ SameRows(data, {row \in Range(store) : row.category = reqs[p].query.category})
      /\ \A i, j \in 1..Len(data) :
           i < j => data[i].date.core.day >= data[j].date.core.day
\* one Food and one Transport row stored, and the Food filter returned the Food row
C10_Witness ==
  \E p \in Conns :
    /\ IsDone(p, "GET")
    /\ reqs[p].query = [category |-> Food]
    /\ {store[i].category : i \in 1..Len(store)} = {Food, Transport}
    /\ Len(store) = 2
    /\ Len(Listed(p)) = 1
    /\ Listed(p)[1].category = Food

\* C11: every POST or PUT whose sanitized (merged) record fails validation is
\* answered with 400, code VALIDATION_ERROR, and a body that carries the
\* validator's full list of {field, message} errors, whatever NODE_ENV is.
IsChecked(r) == "sanitized" \in DOMAIN r \/ "updates" \in DOMAIN r
ErrorsInBody(resp) ==
  IF "details" \in DOMAIN resp.body.error /\ "errors" \in DOMAIN resp.body.error.details
    THEN resp.body.error.details.errors
  ELSE << >>
C11_ValidationErrorsInResponse ==
  [][\A p \in Conns :
       (/\ Arrives(p)
        /\ IsChecked(reqs'[p])
        /\ ~validateExpense(CheckedRecord(reqs'[p]), now).isValid)
         => /\ reqs'[p].pc = "done"
            /\ IsValidationFailure(reqs'[p].resp)
            /\ ErrorsInBody(reqs'[p].resp) = validateExpense(CheckedRecord(reqs'[p]), now).errors]_vars

\* C12: for every candidate record (fields of the types sanitizeExpense
\* produces) validateExpense returns a result whose
\* errors name exactly the fields among date, amount, category, description
\* whose rule the record violates, each once and in that order, whatever the
\* other fields hold; isValid is true exactly when there is no error.
DateViolated(expense, clock) ==
  LET d == expense.date IN
  \/ ~IsString(d)
  \/ Length(d) # 10
  \/ d.core.k # "iso"
  \/ d.core.day > clock \div TicksPerDay
AmountViolated(expense) ==
  LET a == expense.amount IN
  a.t # "number" \/ a.v <= 0 \/ a.v > 999999 * Unit
CategoryViolated(expense) ==
  ~\E i \in 1..7 : expense.category = VALID_CATEGORIES[i]
DescriptionViolated(expense) ==
  LET s == expense.description IN
  s.t # "null" /\ (~IsString(s) \/ Length(s) > 255)
ViolatedFields(expense, clock) ==
  (IF DateViolated(expense, clock) THEN << "date" >> ELSE << >>)
  \o (IF AmountViolated(expense) THEN << "amount" >> ELSE << >>)
  \o (IF CategoryViolated(expense) THEN << "category" >> ELSE << >>)
  \o (IF DescriptionViolated(expense) THEN << "description" >> ELSE << >>)
C12_ValidatorReportsEveryField ==
  \A p \in Conns :
    IsDone(p, "VALIDATE") =>
      LET result == reqs[p].result
          expected == ViolatedFields(reqs[p].expense, reqs[p].clock)
      IN /\ Len(result.errors) = Len(expected)
         /\ \A i \in 1..Len(expected) : result.errors[i].field = expected[i]
         /\ result.isValid = (result.errors = << >>)
\* a record violating all four rules was validated
C12_Witness ==
  \E p \in Conns :
    /\ IsDone(p, "VALIDATE")
    /\ Len(reqs[p].result.errors) = 4
    /\ reqs[p].expense.amount = Num(0)
    /\ reqs[p].expense.description = Plain(Text(256))
    /\ ~reqs[p].result.isValid

\* C13: a POST whose body holds a date, category or description that is present
\* but not text is answered with 400 VALIDATION_ERROR (citing that field where
\* details are sent), and the store is unchanged.
WrongTypeFields(body) ==
  {key \in {"date", "category", "description"} :
     ~IsNullish(Get(body, key)) /\ ~IsString(Get(body, key))}
C13_WrongTypeIsValidationError ==
  [][\A p \in Conns :
       (Arrives(p) /\ reqs'[p].op = "POST" /\ WrongTypeFields(reqs'[p].body) # {})
         => /\ reqs'[p].pc = "done"
            /\ IsValidationFailure(reqs'[p].resp)
            /\ env = Development =>
                 \A key \in WrongTypeFields(reqs'[p].body) : CarriesFieldError(reqs'[p].resp, key)
            /\ store' = store]_vars

\* C14: a failure response that is neither a validation failure nor a not-found
\* has status 500 and code INTERNAL_SERVER_ERROR, and in production its message
\* is not the message text of the fault and it carries no details.
FaultTexts ==
  {TrimTypeError.message, DeleteNoRow.message, NoFields.message,
   InsertFailed.message, UpdateFailed.message}
C14_FaultsAreGeneric ==
  \A p \in Conns :
    (/\ reqs[p].pc = "done"
     /\ reqs[p].resp.body.success = FALSE
     /\ reqs[p].resp.body.error.code \notin {"VALIDATION_ERROR", "NOT_FOUND"})
      => /\ reqs[p].resp.status = 500
         /\ reqs[p].resp.body.error.code = "INTERNAL_SERVER_ERROR"
         /\ env = Production =>
              /\ reqs[p].resp.body.error.message \notin FaultTexts
              /\ "details" \notin DOMAIN reqs[p].resp.body.error

\* C15: in every time zone and at every time of day, a record dated the current
\* calendar date of that zone passes the date rule and a record dated the day
\* after is rejected as being in the future, by validateExpense and by
\* validateExpenseForm.
Future == "Date cannot be in the future"
SaysFuture(errors) == \E i \in 1..Len(errors) : errors[i].message = Future
DatedDay(record, day) == record.date = Plain(Iso(day))
C15_DateRuleIsCalendarDate ==
  \A p \in Conns :
    /\ IsDone(p, "VALIDATE") =>
         \A zone \in Zones :
           LET today == LocalDay(reqs[p].clock, zone) IN
           /\ DatedDay(reqs[p].expense, today) => ~HasFieldError(reqs[p].result.errors, "date")
           /\ DatedDay(reqs[p].expense, today + 1) => SaysFuture(reqs[p].result.errors)
    /\ IsDone(p, "FORM") =>
         LET today == LocalDay(reqs[p].clock, reqs[p].zone) IN
         /\ DatedDay(reqs[p].formData, today) => reqs[p].result # Message(Future)
         /\ DatedDay(reqs[p].formData, today + 1) => reqs[p].result = Message(Future)

\* C19: updateExpense(id, fields) with none of date, amount, category,
\* description among the fields is rejected with an error and leaves the store
\* as it was.
NamesNoColumn(updates) ==
  DOMAIN updates \cap {"date", "amount", "category", "description"} = {}
C19_EmptyUpdateRejected ==
  [][\A p \in Conns :
       (/\ reqs[p].pc = "update"
        /\ reqs[p].op = "UPDATE"
        /\ NamesNoColumn(reqs[p].updates)
        /\ reqs'[p] # reqs[p])
         => /\ reqs'[p].pc = "done"
            /\ reqs'[p].resp.body.success = FALSE
            /\ store' = store]_vars
\* an update naming only id and created_at was rejected for an id in the store
C19_Witness ==
  \E p \in Conns :
    /\ IsDone(p, "UPDATE")
    /\ DOMAIN reqs[p].updates = {"id", "created_at"}
    /\ RowIndex(store, reqs[p].id) # {}
    /\ reqs[p].resp.body.success = FALSE
    /\ reqs[p].resp.body.error.message = "No valid fields to update"

\* C20: a PUT answered with 200 and success carries as data the row stored
\* under its id at that moment, with the values the update wrote, in every
\* interleaving of the connections.
C20_UpdateReturnsStoredRow ==
  [][\A p \in Conns :
       (/\ reqs[p].pc = "updated"
        /\ reqs[p].op = "PUT"
        /\ reqs'[p].pc = "done"
        /\ reqs'[p].resp.status = 200)
         => LET data == reqs'[p].resp.body.data IN
            /\ IsRow(data)
            /\ data.id = Num(reqs[p].id * Unit)
            /\ data = getExpenseById(store', reqs[p].id)]_vars

\* C16: fetchAPI throws, for every response obtained with a status outside
\* 200..299, an error carrying that status and, for a JSON envelope, the
\* server's code and message, whatever the body is; it reports the network
\* error only when no response was obtained.
IsNetworkError(result) == result.thrown /\ result.value.message = NetworkMessage
C16_ResponsesAreNotNetworkErrors ==
  app.pc # "closed" /\ app.last # NoFetch =>
    LET outcome == app.last.outcome
        result == app.last.result
    IN /\ (outcome.obtained /\ ~Ok(outcome.status)) =>
            /\ result.thrown
            /\ "statusCode" \in DOMAIN result.value
            /\ result.value.statusCode = outcome.status
            /\ outcome.json =>
                 /\ result.value.code = outcome.body.error.code
                 /\ result.value.message = outcome.body.error.message
       /\ IsNetworkError(result) => ~outcome.obtained

\* C17: when a confirmed delete of a listed expense has been answered 200 by
\* the server, appState.expenses holds no expense with that id and the list
\* drawn shows none; when an add has been answered 201, appState.expenses
\* holds the record the server returned.
Succeeded(status) ==
  /\ app'.last # NoFetch
  /\ app'.last.outcome.obtained
  /\ app'.last.outcome.json
  /\ app'.last.outcome.status = status
C17_CollectionFollowsServer ==
  [][/\ (app.pc = "deleting" /\ app'.pc = "ready" /\ Succeeded(200)) =>
          /\ \A i \in 1..Len(app'.expenses) :
               app'.expenses[i].id # Num(ParamId(app.request.id) * Unit)
          /\ app.request.id \notin Range(app'.rendered)
     /\ (app.pc = "adding" /\ app'.pc = "ready" /\ Succeeded(201)) =>
          /\ app'.last.outcome.body.data \in Range(app'.expenses)
          /\ ToText(app'.last.outcome.body.data.id) \in Range(app'.rendered)]_vars

\* C18: the page issues a DELETE only in answer to an affirmed confirmation
\* dialog of a click on that expense, the server receives no other DELETE, and
\* a declined dialog issues nothing and leaves appState.expenses and the list
\* drawn as they were.
IssuesDelete == app'.pc = "deleting" /\ app.pc # "deleting"
C18_DeleteOnlyAfterConfirm ==
  [][/\ IssuesDelete =>
          /\ app.pc = "confirm"
          /\ app'.dialog = [id |-> app.dialog.id, answer |-> TRUE]
          /\ app'.request = [method |-> "DELETE", id |-> app.dialog.id]
     /\ \A p \in Conns :
          (Arrives(p) /\ reqs'[p].op = "DELETE") =>
            /\ app.pc = "deleting"
            /\ app.dialog.answer
            /\ reqs'[p].id = ParamId(app.dialog.id)
     /\ (app.pc = "confirm" /\ app' # app /\ ~app'.dialog.answer) =>
          /\ app'.pc = "ready"
          /\ app'.request = NoRequest
          /\ reqs' = reqs
          /\ app'.expenses = app.expenses
          /\ app'.rendered = app.rendered]_vars
\* the DELETE of an affirmed dialog has reached the server, after an earlier
\* dialog for the listed expense
C18_Witness ==
  /\ app.pc = "deleting"
  /\ app.dialog.answer
  /\ reqs[1].pc = "delete"
  /\ reqs[1].id = ParamId(app.request.id)
  /\ Len(app.expenses) >= 1

\* C22: when two PUTs for the same id, one naming only amount and the other
\* only category, have both been answered with success and the row is still
\* stored, the row carries the amount of the one and the category of the
\* other, in every interleaving of their reads and writes.
SucceededPut(p, id, field) ==
  /\ Answered(p, "PUT", 200)
  /\ reqs[p].id = id
  /\ DOMAIN reqs[p].body = {field}
C22_ConcurrentUpdatesBothApplied ==
  \A p, q \in Conns, id \in Ids :
    (/\ p # q
     /\ SucceededPut(p, id, "amount")
     /\ SucceededPut(q, id, "category")
     /\ IsRow(getExpenseById(store, id)))
      => /\ getExpenseById(store, id).amount = parseFloat(reqs[p].body.amount)
         /\ getExpenseById(store, id).category = reqs[q].body.category

\* C23: every error response pairs code and status as the taxonomy does:
\* VALIDATION_ERROR only with 400, NOT_FOUND only with 404 and
\* INTERNAL_SERVER_ERROR only with 500, whatever error reached errorHandler.
IsErrorResponse(r) == r.pc = "done" /\ r.resp.body.success = FALSE
C23_StatusMatchesCode ==
  \A p \in Conns :
    IsErrorResponse(reqs[p]) =>
      LET status == reqs[p].resp.status
          code == reqs[p].resp.body.error.code
      IN /\ code = "VALIDATION_ERROR" => status = 400
         /\ code = "NOT_FOUND" => status = 404
         /\ code = "INTERNAL_SERVER_ERROR" => status = 500

\* C21: once the page is loaded, whatever loads, adds, deletes and resizes
\* have happened, the list drawn is that of the current appState.expenses.
Loaded == app.pc \in {"ready", "confirm", "adding", "deleting"}
C21_RenderShowsCurrentCollection ==
  Loaded => app.rendered = renderExpenseList(app.expenses)

\* C24: once the page is loaded, appState.expenses is in date-descending
\* order after any sequence of adds and deletes.
C24_CollectionDateDescending ==
  Loaded =>
    \A i, j \in 1..Len(app.expenses) :
      i < j => app.expenses[i].date.core.day >= app.expenses[j].date.core.day
====
